---- MODULE Spec2Model ----
(***************************************************************************)
(* A model of lit_gpt/model.py: the GPT module's lazily built caches       *)
(* (rotary table, causal mask, per-layer key/value caches), the forward    *)
(* call in training and incremental-decoding mode, and the two reset       *)
(* operations.                                                             *)
(*                                                                         *)
(* A key/value cache entry is modelled by its slots along the position     *)
(* axis (dim 1).  The key and the value buffer of a layer receive the same *)
(* writes at the same indices, so one sequence of slots stands for the     *)
(* pair.  A slot holds 0 (the zero the buffer is allocated with) or the    *)
(* tag of the token whose key/value was written there; tags are handed out *)
(* in increasing order, one per token of every incremental call.           *)
(***************************************************************************)
EXTENDS Integers, Sequences, FiniteSets, TLC

VARIABLES
    device,      \* idx.device, the device the model and its inputs live on
    dtype,       \* the dtype of the projected keys/values (k.dtype)
    rope_base,   \* self.config.rope_base
    rope_cache,  \* self.rope_cache
    mask_cache,  \* self.mask_cache
    kv_caches,   \* self.kv_caches
    nextTag,     \* the tag of the next token written to the cache
    hist,        \* the tags written by a run of single-token calls at 0,1,2,...
    last,        \* the last call made on the model and how it ended
    training,    \* self.training
    intradoc_mask, \* self.config.intradoc_mask
    flash_avail, \* FlashAttention2Available
    window_cfg,  \* self.config.window_size
    batch,       \* the training batch: its sequence length and fragment lengths
    attn,        \* the attention the last forward over the batch computed
    fwd_mask,    \* the mask the last incremental forward handed to the blocks
    block_size,  \* config.block_size of the model whose re-rope table is built
    rerope,      \* what GPT.build_rope_cache returned for that model
    config,      \* the Config fields Block and CausalSelfAttention read
    block_out,   \* what the last Block.forward did
    heads,       \* how the last attention forward laid out and paired its heads
    weights,     \* the std every weight was last initialised with
    visit,       \* the modules model.apply(_init_weights) has visited
    state,       \* train(): state["iter_num"], state["step_count"]
    pc,          \* train(): where the loop stands
    gradient_accumulation_steps,  \* the module-level constant of tinyllama.py
    initial_iter, \* train(): initial_iter, the iter_num the run started from
    max_step,    \* the module-level constant of tinyllama.py
    val_dataloader, \* train(): whether val_dataloader is not None
    eval_only,   \* train(): eval_only
    resume,      \* train(): resume, as the loop reads and clears it
    go_through_dataloader, \* train(): 'cont' is not in WANDB_NAME
    curr_iter,   \* train(): curr_iter, the batches the replay has passed over
    consumed,    \* the batches the loop has drawn from train_dataloader
    data_len,    \* the batches train_dataloader holds
    lr,          \* how the last get_lr call went
    saved        \* the step counts of the checkpoints this train() saved

\* the state of the GPT module and of the batch it is called on
model_vars == <<device, dtype, rope_base, rope_cache, mask_cache, kv_caches, nextTag, hist,
                last, training, intradoc_mask, flash_avail, window_cfg, batch, attn>>

rerope_vars == <<block_size, rerope>>

block_vars == <<config, block_out, heads>>

init_vars == <<weights, visit>>

train_vars == <<state, pc, gradient_accumulation_steps, initial_iter, max_step,
                val_dataloader, eval_only, resume, go_through_dataloader, curr_iter,
                consumed, data_len, lr, saved>>

\* what the calls on the GPT module leave alone
ext == <<fwd_mask, rerope_vars, block_vars, init_vars, train_vars>>

vars == <<model_vars, ext>>

(* ------------------------------ bounds -------------------------------- *)

\* config.block_size of the model under check
BlockSize == 3

\* config.n_layer of the model under check
NLayer == 2

\* the number of tokens the incremental calls of one behaviour write in all
MaxTag == 3

Devices == {"cuda", "xla"}

Dtypes == {"float32", "bfloat16"}

\* the rotary bases a caller passes to reset_rope_cache
RopeBases == {5000, 20000}

\* max_seq_length: Optional[int] = None, window_size: Optional[int] = None
NoneArg == 0

\* config.window_size == -1: no sliding window
NoWindow == -1

\* the values of config.intradoc_mask: empty (off) or a mode name (on)
IntradocModes == {"", "intradoc"}

(* ------------------------------ helpers ------------------------------- *)

\* self.rope_cache = None
NoRope == [built |-> FALSE, base |-> 0, device |-> "none", rows |-> 0]

\* self.mask_cache = None
NoMask == [built |-> FALSE, device |-> "none", size |-> 0]

Zeros(n) == [i \in 1..n |-> 0]

\* input_pos of a call of T tokens starting at absolute position pos
InputPos(pos, T) == [i \in 1..T |-> pos + i - 1]

\* the tags of the T tokens of a call
Tags(first, T) == [i \in 1..T |-> first + i - 1]

\* GPT.build_rope_cache, the branch without 'rerope': block_size rows
build_rope_cache(dev, base) ==
    [built |-> TRUE, base |-> base, device |-> dev, rows |-> BlockSize]

\* GPT.build_mask_cache: tril(ones(block_size, block_size))
build_mask_cache(dev) == [built |-> TRUE, device |-> dev, size |-> BlockSize]

\* buffers sized to the block size whatever max_seq_length is
build_kv_caches_BlockSize(dev, max_seq_length) ==
    [l \in 1..NLayer |->
        [slots |-> [i \in 1..BlockSize |-> 0], dtype |-> "float32", device |-> dev]]

\* GPT.build_kv_caches: n_layer zeroed buffers of max_seq_length positions
build_kv_caches(dev, max_seq_length) ==
    [l \in 1..NLayer |->
        [slots |-> Zeros(max_seq_length), dtype |-> "float32", device |-> dev]]

\* the buffer left where it is
RollNone(s) == s

\* torch.roll(cache, -1, dims=1)
Roll(s) == IF Len(s) = 0 THEN s ELSE Tail(s) \o <<Head(s)>>

\* cache.index_copy_(1, index, src) with every index in range
IndexCopy(s, index, src) ==
    [i \in 1..Len(s) |->
        IF \E j \in 1..Len(index) : index[j] = i - 1
        THEN src[CHOOSE j \in 1..Len(index) : index[j] = i - 1]
        ELSE s[i]]

\* the indices index_copy_ has copied when it meets the first index out of range
InRangePrefix(index, cap) ==
    LET bad == {j \in 1..Len(index) : index[j] >= cap}
        stop == IF bad = {} THEN Len(index) + 1
                ELSE CHOOSE j \in bad : \A k \in bad : j <= k
    IN  SubSeq(index, 1, stop - 1)

\* build_rope_cache(..., base: int = 10000, ...)
DefaultRopeBase == 10000

\* the (key, value) buffers of one layer, their dtype and device
Entry(slots, dt, dev) == [slots |-> slots, dtype |-> dt, device |-> dev]

(***************************************************************************)
(* CausalSelfAttention.forward, the cache write (lines 300-312) followed   *)
(* by the attention call on the written cache with the explicit mask of    *)
(* max_seq_length columns.  The result is the set of outcomes of the call  *)
(* for one layer: how it ends and what the buffers stored on the model     *)
(* hold afterwards.  index_copy_ writes the stored buffers in place unless *)
(* .to(dtype) or torch.roll made a copy first; a copy reaches the model    *)
(* only through the value the call returns.                                *)
(***************************************************************************)
AttnShifted(input_pos, max_seq_length) ==
    input_pos[Len(input_pos)] >= max_seq_length

AttnIndex(input_pos, max_seq_length) ==
    IF AttnShifted(input_pos, max_seq_length)
    THEN <<max_seq_length - 1>>
    ELSE input_pos

\* the write position clamped, the buffer not shifted
AttnNotRolled(slots, input_pos, max_seq_length) == slots

AttnRolled(slots, input_pos, max_seq_length) ==
    IF AttnShifted(input_pos, max_seq_length) THEN Roll(slots) ELSE slots

AttnOutcomes(entry, input_pos, max_seq_length, src, kdtype) ==
    LET shifted == AttnShifted(input_pos, max_seq_length)
        index   == AttnIndex(input_pos, max_seq_length)
        c       == AttnRolled(entry.slots, input_pos, max_seq_length)
        cap     == Len(c)
        inplace == ~shifted /\ entry.dtype = kdtype
        countErr == Len(index) # Len(src)
        rangeErr == \E j \in 1..Len(index) : index[j] >= cap
        \* attn_mask of max_seq_length columns against cap key positions
        maskErr == max_seq_length # cap /\ max_seq_length # 1
    IN  IF countErr
        THEN {[res |-> "IndexError", slots |-> entry.slots]}
        ELSE IF rangeErr
        THEN {[res |-> "IndexError", slots |-> entry.slots]}
             \cup (IF inplace
                   THEN {[res |-> "IndexError",
                          slots |-> IndexCopy(entry.slots, InRangePrefix(index, cap), src)]}
                   ELSE {})
        ELSE IF maskErr
        THEN {[res |-> "RuntimeError",
               slots |-> IF inplace THEN IndexCopy(c, index, src) ELSE entry.slots]}
        ELSE {[res |-> "ok", slots |-> IndexCopy(c, index, src)]}

(* ------------------------------ the calls ----------------------------- *)

\* what `last` records of a call: the operation, how it ended, whether it was an
\* incremental forward (input_pos given), whether the cache write applied the
\* eviction shift, the capacity of the cache it wrote (0: no write), and whether
\* reset_cache dropped the rotary table and the mask
NoCall == [op |-> "init", res |-> "ok", kv |-> FALSE, shifted |-> FALSE, wcap |-> 0,
           cleared |-> FALSE]

\* no batch has been attended to yet
NoAttn == [res |-> "none", requested |-> FALSE, kind |-> "none", w |-> 0, cu |-> <<>>]

\* no batch at hand
NoBatch == [T |-> 0, lens |-> <<>>]

FreshHist == [ok |-> TRUE, seq |-> <<>>]

BrokenHist == [ok |-> FALSE, seq |-> <<>>]

\* no incremental forward has handed a mask to the blocks
IdleMask == fwd_mask = <<>>

\* no re-rope table has been asked for
NoTable == [res |-> "none", cos |-> <<>>, sin |-> <<>>]

IdleRerope == block_size = 0 /\ rerope = NoTable

\* no block under consideration
NoConfig == [n_head |-> 0, n_query_groups |-> 0, parallel_residual |-> FALSE,
             shared_attention_norm |-> FALSE, mlp_class |-> "none"]

NoBlockOut == [res |-> "none", attn_in |-> "none", mlp_in |-> "none"]

NoHeads == [res |-> "none", q |-> <<>>, k |-> <<>>, paired |-> <<>>]

IdleBlock == config = NoConfig /\ block_out = NoBlockOut /\ heads = NoHeads

IdleWeights == weights = <<>> /\ visit = 0

IdleTrain ==
    /\ state = [iter_num |-> 0, step_count |-> 0]
    /\ pc = "idle"
    /\ gradient_accumulation_steps = 1
    /\ initial_iter = 0
    /\ max_step = 0
    /\ val_dataloader = FALSE
    /\ eval_only = FALSE
    /\ resume = FALSE
    /\ go_through_dataloader = TRUE
    /\ curr_iter = 0
    /\ consumed = 0
    /\ data_len = 0
    /\ lr = [res |-> "none", branch |-> "none", it |-> 0, num |-> 0, den |-> 1]
    /\ saved = {}

Init ==
    /\ IdleMask /\ IdleRerope /\ IdleBlock /\ IdleWeights /\ IdleTrain
    /\ device \in Devices
    /\ dtype \in Dtypes
    /\ rope_base = DefaultRopeBase
    /\ rope_cache = NoRope
    /\ mask_cache = NoMask
    /\ kv_caches = <<>>
    /\ nextTag = 1
    /\ hist = FreshHist
    /\ last = NoCall
    /\ training = TRUE
    /\ intradoc_mask = ""
    /\ flash_avail = TRUE
    /\ window_cfg = NoWindow
    /\ batch = NoBatch
    /\ attn = NoAttn

\* if max_seq_length is None: max_seq_length = block_size
MaxSeqLength(msl_arg) == IF msl_arg = NoneArg THEN BlockSize ELSE msl_arg

\* the assertions without max_seq_length >= T
CapacityViolated_NoLengthCheck(T, usekv, max_seq_length) ==
    \/ max_seq_length > BlockSize
    \/ BlockSize < T

\* the three capacity assertions of GPT.forward (lines 89-94)
CapacityViolated(T, usekv, max_seq_length) ==
    \/ usekv /\ max_seq_length < T
    \/ max_seq_length > BlockSize
    \/ BlockSize < T

\* cos/sin/mask.index_select(.., input_pos): every position must be a row
SelectFails(rope, mask, input_pos) ==
    \E i \in 1..Len(input_pos) : input_pos[i] >= rope.rows \/ input_pos[i] >= mask.size

(***************************************************************************)
(* GPT.forward(idx, max_seq_length=msl_arg, input_pos=...) with document   *)
(* masking off (config.intradoc_mask false, force_use_masking false): idx  *)
(* holds T tokens; usekv says whether input_pos is given, and then         *)
(* input_pos = pos, pos+1, ..., pos+T-1.                                   *)
(***************************************************************************)
Forward(T, usekv, pos, msl_arg) ==
    LET max_seq_length == MaxSeqLength(msl_arg)
        rope1 == IF ~rope_cache.built THEN build_rope_cache(device, rope_base)
                 ELSE rope_cache
        mask1 == IF usekv /\ ~mask_cache.built THEN build_mask_cache(device)
                 ELSE mask_cache
        input_pos == InputPos(pos, T)
        kv1 == IF kv_caches = <<>> THEN build_kv_caches(device, max_seq_length)
               ELSE kv_caches
        src == Tags(nextTag, T)
        call == [NoCall EXCEPT !.op = "forward", !.kv = usekv]
    IN
    /\ usekv => nextTag + T - 1 <= MaxTag
    /\ ~usekv => pos = 0
    /\ UNCHANGED <<device, dtype, training, intradoc_mask, flash_avail, window_cfg, batch, attn, rope_base>>
    /\ IF CapacityViolated(T, usekv, max_seq_length)
       THEN /\ last' = [call EXCEPT !.res = "AssertionError"]
            /\ UNCHANGED <<rope_cache, mask_cache, kv_caches, nextTag, hist>>
       ELSE
       /\ rope_cache' = rope1
       /\ mask_cache' = mask1
       /\ IF ~usekv
          THEN \* the blocks run without a cache
               /\ last' = call
               /\ UNCHANGED <<kv_caches, nextTag, hist>>
          ELSE IF SelectFails(rope1, mask1, input_pos)
          THEN /\ last' = [call EXCEPT !.res = "IndexError"]
               /\ UNCHANGED <<kv_caches, nextTag, hist>>
          ELSE
          \* every layer holds buffers of the same shape and dtype, so the
          \* first block decides how the call ends
          \E o \in AttnOutcomes(kv1[1], input_pos, max_seq_length, src, dtype) :
             /\ nextTag' = nextTag + T
             /\ last' = [call EXCEPT !.res = o.res,
                                     !.shifted = AttnShifted(input_pos, max_seq_length),
                                     !.wcap = Len(kv1[1].slots)]
             /\ IF o.res = "ok"
                THEN /\ kv_caches' =
                          [l \in 1..Len(kv1) |->
                              LET ol == CHOOSE x \in AttnOutcomes(kv1[l], input_pos,
                                                    max_seq_length, src, dtype) : TRUE
                              IN  Entry(ol.slots, dtype, kv1[l].device)]
                     /\ hist' = IF /\ hist.ok
                                   /\ T = 1
                                   /\ pos = Len(hist.seq)
                                   /\ Len(kv1[1].slots) = max_seq_length
                                THEN [ok |-> TRUE, seq |-> Append(hist.seq, nextTag)]
                                ELSE BrokenHist
                ELSE /\ kv_caches' = [kv1 EXCEPT ![1].slots = o.slots]
                     /\ hist' = BrokenHist

\* reset_cache dropping the table and the mask on every device
reset_cache_AnyDevice ==
    LET xla == mask_cache.built
    IN
    /\ kv_caches' = <<>>
    /\ rope_cache' = IF xla THEN NoRope ELSE rope_cache
    /\ mask_cache' = IF xla THEN NoMask ELSE mask_cache
    /\ hist' = FreshHist
    /\ last' = [NoCall EXCEPT !.op = "reset_cache", !.cleared = xla]
    /\ UNCHANGED <<device, dtype, training, intradoc_mask, flash_avail, window_cfg, batch, attn, rope_base, nextTag>>

\* GPT.reset_cache
reset_cache ==
    LET xla == mask_cache.built /\ mask_cache.device = "xla"
    IN
    /\ kv_caches' = <<>>
    /\ rope_cache' = IF xla THEN NoRope ELSE rope_cache
    /\ mask_cache' = IF xla THEN NoMask ELSE mask_cache
    /\ hist' = FreshHist
    /\ last' = [NoCall EXCEPT !.op = "reset_cache", !.cleared = xla]
    /\ UNCHANGED <<device, dtype, training, intradoc_mask, flash_avail, window_cfg, batch, attn, rope_base, nextTag>>

\* reset_rope_cache emptying the key/value caches as well
reset_rope_cache_ClearsAll(new_base) ==
    /\ rope_base' = new_base
    /\ rope_cache' = NoRope
    /\ kv_caches' = <<>>
    /\ hist' = FreshHist
    /\ last' = [NoCall EXCEPT !.op = "reset_rope_cache"]
    /\ UNCHANGED <<device, dtype, training, intradoc_mask, flash_avail, window_cfg, batch, attn, mask_cache, nextTag>>

\* reset_rope_cache keeping the table built from the old base
reset_rope_cache_KeepsTable(new_base) ==
    /\ rope_base' = new_base
    /\ last' = [NoCall EXCEPT !.op = "reset_rope_cache"]
    /\ UNCHANGED <<device, dtype, training, intradoc_mask, flash_avail, window_cfg, batch, attn, rope_cache, mask_cache, kv_caches, nextTag, hist>>

\* GPT.reset_rope_cache
reset_rope_cache(new_base) ==
    /\ rope_base' = new_base
    /\ rope_cache' = NoRope
    /\ last' = [NoCall EXCEPT !.op = "reset_rope_cache"]
    /\ UNCHANGED <<device, dtype, training, intradoc_mask, flash_avail, window_cfg, batch, attn, mask_cache, kv_caches, nextTag, hist>>

\* the arguments the calls are made with: up to one more than the block size
Lengths == 1..(BlockSize + 1)

Positions == 0..BlockSize

MslArgs == {NoneArg} \cup 1..(BlockSize + 1)

ForwardCall ==
    \E T \in Lengths, usekv \in BOOLEAN, pos \in Positions, msl_arg \in MslArgs :
        Forward(T, usekv, pos, msl_arg) /\ UNCHANGED ext

ResetCacheCall == reset_cache /\ UNCHANGED ext

ResetRopeCall == \E new_base \in RopeBases : reset_rope_cache(new_base) /\ UNCHANGED ext

Next ==
    \/ ForwardCall
    \/ ResetCacheCall
    \/ ResetRopeCall

Spec == Init /\ [][Next]_vars

(***************************************************************************)
(* One generation setting: the model on a CUDA device and its rotary base  *)
(* left alone, with every forward call and reset_cache.  The claims about  *)
(* the key/value cache and about the argument checks are checked here.     *)
(***************************************************************************)
InitKV == Init /\ device = "cuda"

NextKV ==
    \/ ForwardCall
    \/ ResetCacheCall

SpecKV == InitKV /\ [][NextKV]_vars


(***************************************************************************)
(* The forward pass over a whole batch (no input_pos): the segment         *)
(* boundaries GPT.forward computes from the fragment lengths, and the      *)
(* attention CausalSelfAttention.scaled_dot_product_attention dispatches   *)
(* to.  The tokens of a batch of B examples of T tokens are numbered       *)
(* 0..B*T-1 in the order q.reshape(-1, nhead, head_dim) puts them.         *)
(***************************************************************************)

\* the examples of one batch
MaxBatch == 2

\* the window_size a caller passes to forward, when it passes one
WindowArg == 2

\* config.window_size of a model configured with a sliding window
WindowCfg == 1

RECURSIVE SumSeq(_)
SumSeq(s) == IF Len(s) = 0 THEN 0 ELSE Head(s) + SumSeq(Tail(s))

RECURSIVE Concat(_)
Concat(ss) == IF Len(ss) = 0 THEN <<>> ELSE Head(ss) \o Concat(Tail(ss))

\* collate_fn_with_intradoc_mask: the fragment lengths of an example padded with
\* -1 to a fixed length
PadFragments(frags) == frags \o [i \in 1..(BlockSize - Len(frags)) |-> -1]

\* real_fragment_lens: a 0, then padded_fragment_lens[:cur_fragment_num] of
\* every example
RealFragmentLens(fragment_lens, fragment_nums) ==
    <<0>> \o Concat([e \in 1..Len(fragment_lens) |->
                        SubSeq(fragment_lens[e], 1, fragment_nums[e])])

\* torch.cumsum(real_fragment_lens, 0)
CumSum(s) == [i \in 1..Len(s) |-> SumSeq(SubSeq(s, 1, i))]

\* the segment of the boundaries cu that holds token t (0: none)
SegmentOf(cu, t) ==
    IF \E k \in 1..(Len(cu) - 1) : cu[k] <= t /\ t < cu[k + 1]
    THEN CHOOSE k \in 1..(Len(cu) - 1) : cu[k] <= t /\ t < cu[k + 1]
    ELSE 0

\* key j is within the window (w - 1, 0) of query i; w = 0: no window
InWindow(w, i, j) == w = 0 \/ i - j <= w - 1

\* flash_attn_varlen_func(q, k, v, cu_seqlens_q=cu, cu_seqlens_k=cu, causal=True,
\* window_size=(w - 1, 0)): query i sees key j
VarlenAttends(cu, w, i, j) ==
    /\ SegmentOf(cu, i) # 0
    /\ SegmentOf(cu, i) = SegmentOf(cu, j)
    /\ j <= i
    /\ InWindow(w, i, j)

\* flash_attn_func(causal=True, window_size=(w - 1, 0)) and the reference
\* scaled_dot_product_attention(is_causal=True) on (B, T, ..): query i sees key j
CausalAttends(T, w, i, j) ==
    /\ i \div T = j \div T
    /\ j <= i
    /\ InWindow(w, i, j)

\* the fused kernels are taken: flash-attn 2 present, no explicit mask, CUDA,
\* half precision (lines 327-332); a forward without input_pos passes no mask
FusedPath == flash_avail /\ device = "cuda" /\ dtype \in {"float16", "bfloat16"}

\* force_use_masking or (self._mask_attn and self.training)
MaskingRequested(force_use_masking) ==
    force_use_masking \/ (intradoc_mask # "" /\ training)

\* the window of the document-segmented branch (lines 348-349), 0: none
VarlenWindow(window_size) ==
    IF window_size # NoneArg \/ window_cfg # NoWindow
    THEN (IF window_size # NoneArg THEN window_size ELSE window_cfg)
    ELSE 0

\* a sliding-window branch in which the configured window comes first
FlashWindow_ConfigFirst(window_size) ==
    IF window_cfg # NoWindow \/ window_size # NoneArg
    THEN (IF window_cfg # NoWindow THEN window_cfg ELSE window_size)
    ELSE 0

\* the window of the sliding-window branch (lines 361-364), 0: none
FlashWindow(window_size) ==
    IF window_cfg # NoWindow \/ window_size # NoneArg
    THEN (IF window_size = NoneArg THEN window_cfg ELSE window_size)
    ELSE 0

\* scaled_dot_product_attention without a mask: the kind of attention computed
\* and its window, or the assertion of the document-segmented branch
Dispatch(force_use_masking, has_cu, window_size) ==
    IF FusedPath
    THEN IF MaskingRequested(force_use_masking)
         THEN IF ~has_cu
              THEN [res |-> "AssertionError", kind |-> "none", w |-> 0]
              ELSE [res |-> "ok", kind |-> "varlen", w |-> VarlenWindow(window_size)]
         ELSE [res |-> "ok", kind |-> "flash", w |-> FlashWindow(window_size)]
    ELSE [res |-> "ok", kind |-> "sdpa", w |-> 0]

\* query i sees key j in the attention `attn` records
Attends(i, j) ==
    /\ attn.res = "ok"
    /\ IF attn.kind = "varlen"
       THEN VarlenAttends(attn.cu, attn.w, i, j)
       ELSE CausalAttends(batch.T, attn.w, i, j)

\* the fragment lists of an example of T tokens: positive lengths, T in all at most
FragLists(T) ==
    {s \in UNION {[1..n -> 1..T] : n \in 1..T} : SumSeq(s) <= T}

(***************************************************************************)
(* GPT.forward(idx, fragment_lens, fragment_nums, force_use_masking=..,    *)
(* window_size=..) on the batch, as train() and validate() call it.        *)
(* batch.lens[e] are the fragment lengths of example e; has_frags says     *)
(* whether the fragment tensors are passed.                                *)
(***************************************************************************)
ForwardBatch(has_frags, force_use_masking, window_size) ==
    LET T == batch.T
        fragment_lens == [e \in 1..Len(batch.lens) |-> PadFragments(batch.lens[e])]
        fragment_nums == [e \in 1..Len(batch.lens) |-> Len(batch.lens[e])]
        requested == MaskingRequested(force_use_masking)
        cu_seqlens == CumSum(RealFragmentLens(fragment_lens, fragment_nums))
        rope1 == IF ~rope_cache.built THEN build_rope_cache(device, rope_base)
                 ELSE rope_cache
        d == Dispatch(force_use_masking, requested, window_size)
        call == [NoCall EXCEPT !.op = "forward"]
        seen == [NoAttn EXCEPT !.res = "ok", !.requested = requested]
    IN
    /\ UNCHANGED <<device, dtype, training, intradoc_mask, flash_avail, window_cfg,
                   batch, rope_base, mask_cache, kv_caches, nextTag, hist>>
    /\ IF requested /\ ~has_frags
       THEN \* fragment_lens.device on None
            /\ last' = [call EXCEPT !.res = "AttributeError"]
            /\ attn' = [seen EXCEPT !.res = "AttributeError"]
            /\ UNCHANGED rope_cache
       ELSE IF CapacityViolated(T, FALSE, BlockSize)
       THEN /\ last' = [call EXCEPT !.res = "AssertionError"]
            /\ attn' = [seen EXCEPT !.res = "AssertionError"]
            /\ UNCHANGED rope_cache
       ELSE /\ rope_cache' = rope1
            /\ last' = [call EXCEPT !.res = d.res]
            /\ attn' = [seen EXCEPT !.res = d.res, !.kind = d.kind, !.w = d.w,
                                    !.cu = IF requested THEN cu_seqlens ELSE <<>>]

\* model.train()
train ==
    /\ training' = TRUE
    /\ UNCHANGED <<device, dtype, intradoc_mask, flash_avail, window_cfg, batch, attn,
                   rope_base, rope_cache, mask_cache, kv_caches, nextTag, hist, last>>

\* model.eval()
eval ==
    /\ training' = FALSE
    /\ UNCHANGED <<device, dtype, intradoc_mask, flash_avail, window_cfg, batch, attn,
                   rope_base, rope_cache, mask_cache, kv_caches, nextTag, hist, last>>

BatchCall ==
    \E has_frags \in BOOLEAN, force_use_masking \in BOOLEAN,
       window_size \in {NoneArg, WindowArg} :
        ForwardBatch(has_frags, force_use_masking, window_size) /\ UNCHANGED ext

\* the batches: up to MaxBatch examples of the same length, shorter than the block
Batches ==
    UNION {[T : {T}, lens : [1..B -> FragLists(T)]] :
              <<T, B>> \in (1..(BlockSize - 1)) \X (1..MaxBatch)}

InitAttn ==
    /\ IdleMask /\ IdleRerope /\ IdleBlock /\ IdleWeights /\ IdleTrain
    /\ device \in Devices
    /\ dtype \in Dtypes
    /\ intradoc_mask \in IntradocModes
    /\ flash_avail = TRUE
    /\ window_cfg \in {NoWindow, WindowCfg}
    /\ batch \in Batches
    /\ training = TRUE
    /\ rope_base = DefaultRopeBase
    /\ rope_cache = NoRope
    /\ mask_cache = NoMask
    /\ kv_caches = <<>>
    /\ nextTag = 1
    /\ hist = FreshHist
    /\ last = NoCall
    /\ attn = NoAttn

TrainCall == train /\ UNCHANGED ext

EvalCall == eval /\ UNCHANGED ext

NextAttn ==
    \/ BatchCall
    \/ TrainCall
    \/ EvalCall

SpecAttn == InitAttn /\ [][NextAttn]_vars

(***************************************************************************)
(* The causal mask: GPT.build_mask_cache (lines 171-173) and the rows and  *)
(* columns GPT.forward selects from it for an incremental call (lines      *)
(* 109-110).  Rows and columns are counted from 0 in the source and from 1 *)
(* in the sequences here.                                                  *)
(***************************************************************************)

\* a mask that hides the diagonal
Tril_Strict(n) == [i \in 1..n |-> [j \in 1..n |-> j < i]]

\* torch.tril(torch.ones((n, n), dtype=torch.bool))
Tril(n) == [i \in 1..n |-> [j \in 1..n |-> j <= i]]

\* self.mask_cache.index_select(2, input_pos)[:, :, :, :max_seq_length]
ForwardMask(mask_c, input_pos, max_seq_length) ==
    [r \in 1..Len(input_pos) |->
        SubSeq(Tril(mask_c.size)[input_pos[r] + 1], 1, max_seq_length)]

\* GPT.forward, keeping the mask it hands to the blocks: None without
\* input_pos, the selected rows in an incremental call that reaches the blocks
ForwardKeepingMask(T, usekv, pos, msl_arg) ==
    /\ Forward(T, usekv, pos, msl_arg)
    /\ fwd_mask' =
         IF last'.res = "AssertionError" \/ (usekv /\ last'.wcap = 0)
         THEN fwd_mask
         ELSE IF ~usekv THEN <<>>
         ELSE [input_pos |-> InputPos(pos, T),
               max_seq_length |-> MaxSeqLength(msl_arg),
               rows |-> ForwardMask(mask_cache', InputPos(pos, T), MaxSeqLength(msl_arg))]
    /\ UNCHANGED <<rerope_vars, block_vars, init_vars, train_vars>>

MaskedForwardCall ==
    \E T \in Lengths, usekv \in BOOLEAN, pos \in Positions, msl_arg \in MslArgs :
        ForwardKeepingMask(T, usekv, pos, msl_arg)

NextMask ==
    \/ MaskedForwardCall
    \/ ResetCacheCall

SpecMask == InitKV /\ [][NextMask]_vars

(***************************************************************************)
(* GPT.build_rope_cache (lines 136-169) with its re-rope branch.  A row of *)
(* the cos (sin) table is modelled by the position whose angles it holds:  *)
(* build_rope_cache(seq_len, ..) returns the rows of positions             *)
(* 0..seq_len-1.  The model's block size is drawn from BlockSizes here,    *)
(* since the canonical lengths are the source's 1024 and 2048.             *)
(***************************************************************************)

\* rerope_len of 'fix1rerope'
ReropeLen1 == 1024

\* rerope_len of 'fix2rerope'
ReropeLen2 == 2048

\* the values of config.block_size the table is built for
BlockSizes == {512, 1024, 1536, 2048, 3072, 4096}

\* the values of config.intradoc_mask: two re-rope variants, a name with
\* 'rerope' that is neither, and a name without
ReropeModes == {"fix1rerope", "fix2rerope", "fix3rerope", "intradoc"}

\* build_rope_cache(seq_len, ..): torch.arange(seq_len) against theta
RopeRows(seq_len) == [i \in 1..seq_len |-> i - 1]

\* the table stretched instead of tiled: every row held `factor` times in a row
RepeatEach(rows, factor) ==
    [i \in 1..(Len(rows) * factor) |-> rows[((i - 1) \div factor) + 1]]

\* tensor.repeat(factor, 1): `factor` copies of the rows one after the other
RECURSIVE Repeat(_, _)
Repeat(rows, factor) ==
    IF factor <= 0 THEN <<>> ELSE rows \o Repeat(rows, factor - 1)

\* GPT.build_rope_cache for config.intradoc_mask = variant
BuildRopeTable(variant, bsize, base) ==
    IF variant \notin {"fix1rerope", "fix2rerope", "fix3rerope"}
    THEN [res |-> "ok", base |-> base, rerope_len |-> 0,
          cos |-> RopeRows(bsize), sin |-> RopeRows(bsize)]
    ELSE IF variant \notin {"fix1rerope", "fix2rerope"}
    THEN [res |-> "NotImplementedError", base |-> base, rerope_len |-> 0,
          cos |-> <<>>, sin |-> <<>>]
    ELSE LET rerope_len == IF variant = "fix2rerope" THEN ReropeLen2 ELSE ReropeLen1
             factor == bsize \div rerope_len
         IN  [res |-> "ok", base |-> base, rerope_len |-> rerope_len,
              cos |-> Repeat(RopeRows(rerope_len), factor),
              sin |-> Repeat(RopeRows(rerope_len), factor)]

\* the lazy build of GPT.forward (lines 96-97) on the model of block_size
BuildRerope ==
    /\ rerope.res = "none"
    /\ rerope' = BuildRopeTable(intradoc_mask, block_size, rope_base)
    /\ UNCHANGED <<model_vars, block_size, fwd_mask, block_vars, init_vars, train_vars>>

\* GPT.reset_rope_cache(new_base) on that model
ResetRerope ==
    \E new_base \in RopeBases :
        /\ reset_rope_cache(new_base)
        /\ rerope' = NoTable
        /\ UNCHANGED <<block_size, fwd_mask, block_vars, init_vars, train_vars>>

InitRerope ==
    /\ IdleMask /\ IdleBlock /\ IdleWeights /\ IdleTrain
    /\ block_size \in BlockSizes
    /\ rerope = NoTable
    /\ device \in Devices
    /\ dtype \in Dtypes
    /\ intradoc_mask \in ReropeModes
    /\ flash_avail = TRUE
    /\ window_cfg = NoWindow
    /\ batch = NoBatch
    /\ training = TRUE
    /\ rope_base = DefaultRopeBase
    /\ rope_cache = NoRope
    /\ mask_cache = NoMask
    /\ kv_caches = <<>>
    /\ nextTag = 1
    /\ hist = FreshHist
    /\ last = NoCall
    /\ attn = NoAttn

NextRerope ==
    \/ BuildRerope
    \/ ResetRerope

SpecRerope == InitRerope /\ [][NextRerope]_vars

(***************************************************************************)
(* Block.forward (lines 202-230) and the head layout of                    *)
(* CausalSelfAttention.forward (lines 261-283) with the grouped-query      *)
(* expansion of the reference attention path (lines 371-376).  Tensors are *)
(* modelled by what they were computed from.  The fused projection is      *)
(* modelled by its head-sized chunks, numbered 1..n_head + 2*n_query_groups*)
(* in the order of the projection's output features.                       *)
(***************************************************************************)

\* config.n_head and config.n_query_groups go up to this
MaxHead == 4

MlpClasses == {"GptNeoxMLP", "LLaMAMLP"}

Configs ==
    [n_head : 1..MaxHead, n_query_groups : 1..MaxHead, parallel_residual : BOOLEAN,
     shared_attention_norm : BOOLEAN, mlp_class : MlpClasses]

\* q_per_kv = self.config.n_head // self.config.n_query_groups
QPerKv(cfg) == cfg.n_head \div cfg.n_query_groups

\* shape = (config.n_head + 2 * config.n_query_groups) * config.head_size, in
\* chunks of head_size
ProjChunks(cfg) == cfg.n_head + 2 * cfg.n_query_groups

\* a view that only needs the projection to be wide enough
ViewFails_TooNarrowOnly(cfg) ==
    cfg.n_query_groups * (QPerKv(cfg) + 2) > ProjChunks(cfg)

\* qkv.view(B, T, n_query_groups, total_qkv, head_size) raises unless the sizes
\* multiply to the size of qkv
ViewFails(cfg) ==
    cfg.n_query_groups * (QPerKv(cfg) + 2) # ProjChunks(cfg)

\* the view: chunk (g, s) of group g, counted from 1
ViewQKV(cfg) ==
    [g \in 1..cfg.n_query_groups |->
        [s \in 1..(QPerKv(cfg) + 2) |-> (g - 1) * (QPerKv(cfg) + 2) + s]]

\* q of qkv.split((q_per_kv, 1, 1), dim=-2), reshaped to (B, T, -1, head_size)
QHeads(cfg) ==
    Concat([g \in 1..cfg.n_query_groups |-> SubSeq(ViewQKV(cfg)[g], 1, QPerKv(cfg))])

\* k of the split, reshaped to (B, T, -1, head_size); v lies one chunk further
KHeads(cfg) ==
    [g \in 1..cfg.n_query_groups |-> ViewQKV(cfg)[g][QPerKv(cfg) + 1]]

\* the key heads repeated as a whole, one copy after the other
RepeatTiled(s, n) == Repeat(s, n)

\* tensor.repeat_interleave(n, dim=1): every head n times in a row
RepeatInterleave(s, n) ==
    [i \in 1..(Len(s) * n) |-> s[((i - 1) \div n) + 1]]

\* the reference path: k.repeat_interleave(q.shape[1] // k.shape[1], dim=1) when
\* the shapes differ; head h of q then meets head h of k
PairedKHeads(q, k) ==
    IF Len(q) # Len(k) THEN RepeatInterleave(k, Len(q) \div Len(k)) ELSE k

\* the head layout CausalSelfAttention.forward computes for the config
AttnHeads(cfg) ==
    IF ViewFails(cfg)
    THEN [NoHeads EXCEPT !.res = "RuntimeError"]
    ELSE [res |-> "ok", q |-> QHeads(cfg), k |-> KHeads(cfg),
          paired |-> IF FusedPath THEN <<>> ELSE PairedKHeads(QHeads(cfg), KHeads(cfg))]

\* a block that lets the sequential topology share norm_1
BlockOut_SequentialShares(cfg, attn_res) ==
    LET n_1 == <<"norm_1", "x">>
    IN  IF attn_res # "ok"
        THEN [res |-> attn_res, attn_in |-> n_1, mlp_in |-> "none"]
        ELSE [res |-> "ok", attn_in |-> n_1,
              mlp_in |-> IF cfg.shared_attention_norm THEN n_1 ELSE <<"norm_2", "x">>]

\* Block.forward on the input "x": what attention and the feed-forward read
BlockOut(cfg, attn_res) ==
    LET n_1 == <<"norm_1", "x">>
    IN  IF attn_res # "ok"
        THEN [res |-> attn_res, attn_in |-> n_1, mlp_in |-> "none"]
        ELSE IF cfg.parallel_residual
        THEN [res |-> "ok", attn_in |-> n_1,
              mlp_in |-> IF cfg.shared_attention_norm THEN n_1 ELSE <<"norm_2", "x">>]
        ELSE IF cfg.shared_attention_norm
        THEN [res |-> "NotImplementedError", attn_in |-> n_1, mlp_in |-> "none"]
        ELSE [res |-> "ok", attn_in |-> n_1, mlp_in |-> <<"norm_2", "x + h">>]

\* one call of Block.forward, the attention call it makes included
BlockForward ==
    /\ heads' = AttnHeads(config)
    /\ block_out' = BlockOut(config, AttnHeads(config).res)
    /\ UNCHANGED <<model_vars, config, fwd_mask, rerope_vars, init_vars, train_vars>>

InitBlock ==
    /\ IdleMask /\ IdleRerope /\ IdleWeights /\ IdleTrain
    /\ config \in Configs
    /\ block_out = NoBlockOut
    /\ heads = NoHeads
    /\ device \in Devices
    /\ dtype \in Dtypes
    /\ intradoc_mask = ""
    /\ flash_avail = TRUE
    /\ window_cfg = NoWindow
    /\ batch = NoBatch
    /\ training = TRUE
    /\ rope_base = DefaultRopeBase
    /\ rope_cache = NoRope
    /\ mask_cache = NoMask
    /\ kv_caches = <<>>
    /\ nextTag = 1
    /\ hist = FreshHist
    /\ last = NoCall
    /\ attn = NoAttn

NextBlock == BlockForward

SpecBlock == InitBlock /\ [][NextBlock]_vars

(***************************************************************************)
(* model.apply(partial(model._init_weights, n_layer=config.n_layer))       *)
(* (tinyllama.py line 188, model.py lines 40-54).  Module.apply calls the  *)
(* function on the children of a module, in the order they were            *)
(* registered, and then on the module itself.  A module is modelled by its *)
(* class and its path: <<l, ..>> inside block l, <<0, ..>> outside the     *)
(* blocks.  A weight is named by the path of the module that owns it; its  *)
(* name in named_parameters() of a module above it is the rest of the path *)
(* followed by "weight".  xformers' SwiGLU without packed weights holds    *)
(* the linear layers w1, w2 and w3.                                        *)
(***************************************************************************)

\* std = math.sqrt(2.0 / 5 / n_embd) and std = 1 / math.sqrt(n_embd) / n_layer
StdBase == "sqrt(2/(5*n_embd))"

StdDepth == "1/(sqrt(n_embd)*n_layer)"

Mod(class, path) == [class |-> class, path |-> path]

\* the modules of the feed-forward of block l, children first
MlpModules(cfg, l) ==
    IF cfg.mlp_class = "GptNeoxMLP"
    THEN << Mod("Linear", <<l, "mlp", "fc">>),
            Mod("Linear", <<l, "mlp", "proj">>),
            Mod("GptNeoxMLP", <<l, "mlp">>) >>
    ELSE << Mod("Linear", <<l, "mlp", "swiglu", "w1">>),
            Mod("Linear", <<l, "mlp", "swiglu", "w2">>),
            Mod("Linear", <<l, "mlp", "swiglu", "w3">>),
            Mod("SwiGLU", <<l, "mlp", "swiglu">>),
            Mod("LLaMAMLP", <<l, "mlp">>) >>

\* the modules of block l, children first (Block.__init__, lines 194-201)
BlockModules(cfg, l) ==
    << Mod("Norm", <<l, "norm_1">>),
       Mod("Linear", <<l, "attn", "attn">>),
       Mod("Linear", <<l, "attn", "proj">>),
       Mod("CausalSelfAttention", <<l, "attn">>) >>
    \o (IF cfg.shared_attention_norm THEN <<>> ELSE << Mod("Norm", <<l, "norm_2">>) >>)
    \o MlpModules(cfg, l)
    \o << Mod("Block", <<l>>) >>

\* the modules of the GPT in the order apply visits them (GPT.__init__, 23-35)
Modules(cfg) ==
    << Mod("Linear", <<0, "lm_head">>),
       Mod("Embedding", <<0, "transformer", "wte">>) >>
    \o Concat([l \in 1..NLayer |-> BlockModules(cfg, l)])
    \o << Mod("ModuleList", <<0, "transformer", "h">>),
          Mod("Norm", <<0, "transformer", "ln_f">>),
          Mod("ModuleDict", <<0, "transformer">>),
          Mod("GPT", <<0>>) >>

\* the linear and embedding weights of the model
WeightPaths(cfg) ==
    {Modules(cfg)[i].path : i \in {k \in 1..Len(Modules(cfg)) :
                                      Modules(cfg)[k].class \in {"Linear", "Embedding"}}}

\* the weights module.named_parameters() yields, by path
ParamsOf(cfg, module) ==
    {p \in WeightPaths(cfg) :
        /\ Len(p) >= Len(module.path)
        /\ SubSeq(p, 1, Len(module.path)) = module.path}

\* the name of weight p in module.named_parameters(), without "weight"
RelName(module, p) == SubSeq(p, Len(module.path) + 1, Len(p))

\* the condition of line 53
DepthScaled(module, name) ==
    \/ name = <<"proj">> /\ module.class = "LLaMAMLP"
    \/ name = <<"w3">> /\ module.class = "SwiGLU"
    \/ name = <<"proj">> /\ module.class = "CausalSelfAttention"

\* GPT._init_weights(module, n_layer) on the weights w
InitWeights(cfg, module, w) ==
    LET w1 == IF module.class \in {"Embedding", "Linear"}
              THEN [w EXCEPT ![module.path] = StdBase]
              ELSE w
    IN  [p \in DOMAIN w1 |->
            IF p \in ParamsOf(cfg, module) /\ DepthScaled(module, RelName(module, p))
            THEN StdDepth
            ELSE w1[p]]

\* Module.apply: the next module is visited
ApplyInitWeights ==
    /\ visit < Len(Modules(config))
    /\ weights' = InitWeights(config, Modules(config)[visit + 1], weights)
    /\ visit' = visit + 1
    /\ UNCHANGED <<model_vars, config, block_out, heads, fwd_mask, rerope_vars, train_vars>>

\* model = GPT(config): every weight as the constructor left it
InitApply ==
    /\ IdleMask /\ IdleRerope /\ IdleTrain
    /\ config \in {c \in Configs : c.n_head = 1 /\ c.n_query_groups = 1}
    /\ block_out = NoBlockOut
    /\ heads = NoHeads
    /\ weights = [p \in WeightPaths(config) |-> "default"]
    /\ visit = 0
    /\ device = "cuda"
    /\ dtype = "bfloat16"
    /\ intradoc_mask = ""
    /\ flash_avail = TRUE
    /\ window_cfg = NoWindow
    /\ batch = NoBatch
    /\ training = TRUE
    /\ rope_base = DefaultRopeBase
    /\ rope_cache = NoRope
    /\ mask_cache = NoMask
    /\ kv_caches = <<>>
    /\ nextTag = 1
    /\ hist = FreshHist
    /\ last = NoCall
    /\ attn = NoAttn

NextApply == ApplyInitWeights

SpecApply == InitApply /\ [][NextApply]_vars

(***************************************************************************)
(* train() of pretrain/tinyllama.py (lines 245-397) on a run with          *)
(* RESET_ROPE on: the sanity validation and the eval_only return, the      *)
(* reset of the rotary base before the loop, and the loop over the         *)
(* training dataloader.  One pass through the loop body is the replay of   *)
(* a batch a resumed run has already seen (lines 300-305), the break       *)
(* (lines 311-312), or an iteration in two steps: the learning rate and    *)
(* the forward/backward pass (lines 314-341), then the optimizer step,     *)
(* the rotary rebase, the iteration count, the validation and the          *)
(* checkpoint (lines 343-397).  A run starts from the fresh state or from  *)
(* a checkpoint the loop saved.                                            *)
(***************************************************************************)

\* max_step of the longest run under check
MaxStep == 4100

\* gradient_accumulation_steps goes up to this
MaxAccum == 2

\* the dataset names "..._<n>b_tokens" go up to this n
MaxTokens == 3

\* the length of a training dataloader that runs out
ShortData == 3

\* a training dataloader that keeps yielding batches
Endless == -1

\* warmup_steps
warmup_steps == 2000

\* eval_step_interval
eval_step_interval == 500

\* max_step = tokens * 1000 for a dataset named after its tokens, one fixed
\* value for the others
MaxSteps == {tokens * 1000 : tokens \in 1..MaxTokens} \cup {MaxStep}

\* save_step_interval = min(max_step // 1, 2500)
SaveStepInterval == IF max_step < 2500 THEN max_step ELSE 2500

\* rope_update_steps
rope_update_steps ==
    0 :> 5000 @@ 2000 :> 20000 @@ 4000 :> 30000 @@ 8000 :> 100000
      @@ 16000 :> 400000 @@ 32000 :> 1000000

\* warmup_iters = warmup_steps * gradient_accumulation_steps
warmup_iters == warmup_steps * gradient_accumulation_steps

\* max_iters = max_step * gradient_accumulation_steps
max_iters == max_step * gradient_accumulation_steps

\* lr_decay_iters = max_iters
lr_decay_iters == max_iters

\* an accumulation test that looks at the iterations already done
IsAccumulating_Done(iter_num) == iter_num % gradient_accumulation_steps # 0

\* is_accumulating = (state["iter_num"] + 1) % gradient_accumulation_steps != 0
IsAccumulating(iter_num) == (iter_num + 1) % gradient_accumulation_steps # 0

\* the step counts at which the loop saves a checkpoint
CheckpointSteps == {s \in 1..max_step : s % SaveStepInterval = 0}

\* a warmup test that takes in the first iteration after the warmup
InWarmup_Inclusive(it) == it <= warmup_iters

\* get_lr: if it < warmup_iters
InWarmup(it) == it < warmup_iters

\* assert 0 <= decay_ratio <= 1 on decay_ratio = num / den
InUnit(num, den) ==
    IF den > 0 THEN 0 <= num /\ num <= den ELSE den <= num /\ num <= 0

NoLr == [res |-> "none", branch |-> "none", it |-> 0, num |-> 0, den |-> 1]

\* get_lr(it): how the call ends, the branch it takes and the ratio it forms
get_lr(it) ==
    LET num == it - warmup_iters
        den == lr_decay_iters - warmup_iters
        call == [NoLr EXCEPT !.res = "ok", !.it = it]
    IN
    IF InWarmup(it)
    THEN [call EXCEPT !.branch = "warmup", !.num = it, !.den = warmup_iters,
                      !.res = IF warmup_iters = 0 THEN "ZeroDivisionError" ELSE "ok"]
    ELSE IF it > lr_decay_iters
    THEN [call EXCEPT !.branch = "min_lr"]
    ELSE [call EXCEPT !.branch = "cosine", !.num = num, !.den = den,
                      !.res = IF den = 0 THEN "ZeroDivisionError"
                              ELSE IF ~InUnit(num, den) THEN "AssertionError"
                              ELSE "ok"]

\* a break test that lets the iteration at max_iters through
LoopEnds_After(iter_num) == iter_num > max_iters

\* if state["iter_num"] >= max_iters: break
LoopEnds(iter_num) == iter_num >= max_iters

\* a replay test that passes over one batch more
FastForward_Inclusive(curr) == curr <= initial_iter

\* if curr_iter < initial_iter
FastForward(curr) == curr < initial_iter

\* if resume and go_through_dataloader
Replaying == resume /\ go_through_dataloader

\* for train_data in train_dataloader: the dataloader yields a batch
HasBatch == data_len = Endless \/ consumed < data_len

\* the else branch of the replay: resume = False, curr_iter = -1
ReplayEnds ==
    /\ resume' = IF Replaying THEN FALSE ELSE resume
    /\ curr_iter' = IF Replaying THEN -1 ELSE curr_iter

\* what train() reads and never assigns
train_args == <<gradient_accumulation_steps, max_step, val_dataloader, eval_only,
                go_through_dataloader, data_len>>

\* what train() has no access to
train_ext == <<fwd_mask, rerope_vars, block_vars, init_vars>>

\* validate(): model.eval(), the forward calls on block_size tokens of the
\* validation batches, model.train()
validate == Forward(BlockSize, FALSE, 0, NoneArg)

\* model.reset_rope_cache(new_base) and then validate(): the first
\* validation forward builds the table on the new base
reset_rope_cache_validate(new_base) ==
    /\ rope_base' = new_base
    /\ rope_cache' = build_rope_cache(device, new_base)
    /\ last' = [NoCall EXCEPT !.op = "forward"]
    /\ UNCHANGED <<device, dtype, training, intradoc_mask, flash_avail, window_cfg,
                   batch, attn, mask_cache, kv_caches, nextTag, hist>>

\* train() up to the return of the eval_only mode: the sanity validation
\* when there is a validation dataloader
TrainValidate ==
    /\ pc = "start"
    /\ IF val_dataloader
       THEN /\ validate
            /\ pc' = IF eval_only THEN "done" ELSE "validated"
       ELSE /\ UNCHANGED model_vars
            /\ pc' = "validated"
    /\ UNCHANGED <<state, initial_iter, resume, curr_iter, consumed, lr, saved,
                   train_args, train_ext>>

\* train() from there up to the loop: initial_iter, curr_iter and the reset to
\* rope_update_steps[0]
TrainStart ==
    /\ pc = "validated"
    /\ initial_iter' = state.iter_num
    /\ curr_iter' = 0
    /\ reset_rope_cache(rope_update_steps[0])
    /\ pc' = "loop"
    /\ UNCHANGED <<state, resume, consumed, lr, saved, train_args, train_ext>>

\* the replay of a resumed run passes over a batch
TrainSkip ==
    /\ pc = "loop"
    /\ HasBatch
    /\ Replaying /\ FastForward(curr_iter)
    /\ consumed' = consumed + 1
    /\ curr_iter' = curr_iter + 1
    /\ UNCHANGED <<model_vars, state, pc, initial_iter, resume, lr, saved,
                   train_args, train_ext>>

\* the dataloader has no batch left
TrainExhausted ==
    /\ pc = "loop"
    /\ ~HasBatch
    /\ pc' = "done"
    /\ UNCHANGED <<model_vars, state, initial_iter, resume, curr_iter, consumed, lr,
                   saved, train_args, train_ext>>

\* the loop has run max_iters iterations
TrainBreak ==
    /\ pc = "loop"
    /\ HasBatch
    /\ ~(Replaying /\ FastForward(curr_iter))
    /\ LoopEnds(state.iter_num)
    /\ consumed' = consumed + 1
    /\ ReplayEnds
    /\ pc' = "done"
    /\ UNCHANGED <<model_vars, state, initial_iter, lr, saved, train_args, train_ext>>

\* lr = get_lr(state["iter_num"]), logits = model(input_ids) on block_size
\* tokens, and the backward pass
TrainForward ==
    /\ pc = "loop"
    /\ HasBatch
    /\ ~(Replaying /\ FastForward(curr_iter))
    /\ ~LoopEnds(state.iter_num)
    /\ consumed' = consumed + 1
    /\ ReplayEnds
    /\ lr' = get_lr(state.iter_num)
    /\ IF lr'.res = "ok"
       THEN /\ Forward(BlockSize, FALSE, 0, NoneArg)
            /\ pc' = "backward"
       ELSE /\ UNCHANGED model_vars
            /\ pc' = lr'.res
    /\ UNCHANGED <<state, initial_iter, saved, train_args, train_ext>>

\* the optimizer step when not accumulating, the rebase when step_count is a
\* key of rope_update_steps, iter_num += 1, the assertion on val_dataloader,
\* the validation every eval_step_interval steps and the checkpoint every
\* save_step_interval steps
TrainStep ==
    LET is_accumulating == IsAccumulating(state.iter_num)
        step_count == IF is_accumulating
                      THEN state.step_count
                      ELSE state.step_count + 1
        rebases == step_count \in DOMAIN rope_update_steps
        validates == /\ val_dataloader
                     /\ ~is_accumulating
                     /\ step_count % eval_step_interval = 0
        saves == /\ val_dataloader
                 /\ ~is_accumulating
                 /\ step_count % SaveStepInterval = 0
    IN
    /\ pc = "backward"
    /\ state' = [iter_num |-> state.iter_num + 1, step_count |-> step_count]
    /\ IF rebases /\ validates
       THEN reset_rope_cache_validate(rope_update_steps[step_count])
       ELSE IF rebases
       THEN reset_rope_cache(rope_update_steps[step_count])
       ELSE IF validates
       THEN validate
       ELSE UNCHANGED model_vars
    /\ saved' = IF saves THEN saved \cup {step_count} ELSE saved
    /\ pc' = IF val_dataloader THEN "loop" ELSE "AssertionError"
    /\ UNCHANGED <<initial_iter, resume, curr_iter, consumed, lr, train_args, train_ext>>

\* main() hands train() the fresh state, or the state of a saved checkpoint
\* when it resumes
InitTrain ==
    /\ IdleMask /\ IdleRerope /\ IdleBlock /\ IdleWeights
    /\ gradient_accumulation_steps \in 1..MaxAccum
    /\ max_step \in MaxSteps
    /\ \/ /\ resume = FALSE
          /\ state = [iter_num |-> 0, step_count |-> 0]
       \/ /\ resume = TRUE
          /\ \E s \in CheckpointSteps :
                state = [iter_num |-> s * gradient_accumulation_steps, step_count |-> s]
    /\ val_dataloader \in BOOLEAN
    /\ eval_only \in BOOLEAN
    /\ go_through_dataloader \in BOOLEAN
    /\ data_len \in {ShortData, Endless}
    /\ pc = "start"
    /\ initial_iter = 0
    /\ curr_iter = 0
    /\ consumed = 0
    /\ lr = NoLr
    /\ saved = {}
    /\ device = "cuda"
    /\ dtype = "bfloat16"
    /\ intradoc_mask = ""
    /\ flash_avail = TRUE
    /\ window_cfg = NoWindow
    /\ batch = NoBatch
    /\ training = TRUE
    /\ rope_base = DefaultRopeBase
    /\ rope_cache = NoRope
    /\ mask_cache = NoMask
    /\ kv_caches = <<>>
    /\ nextTag = 1
    /\ hist = FreshHist
    /\ last = NoCall
    /\ attn = NoAttn

NextTrain ==
    \/ TrainValidate
    \/ TrainStart
    \/ TrainSkip
    \/ TrainExhausted
    \/ TrainForward
    \/ TrainStep
    \/ TrainBreak

SpecTrain == InitTrain /\ [][NextTrain]_vars

\* the loop keeps running: the dataloader yields its next batch or ends, and
\* every step of an iteration is taken
SpecTrainFair == SpecTrain /\ WF_vars(NextTrain)

(* ------------------------- the claims: C1 ----------------------------- *)

\* the buffers of layer l a call with this max_seq_length writes to: the stored
\* ones, or the zeroed ones the call allocates first
PreSlots(l, max_seq_length) ==
    IF kv_caches = <<>> THEN Zeros(max_seq_length) ELSE kv_caches[l].slots

\* layer l after the step: slots 1..cap-1 hold what slots 2..cap held, the last
\* slot holds a token of this call
ShiftedByOne(l, T, max_seq_length) ==
    LET pre  == PreSlots(l, max_seq_length)
        post == kv_caches'[l].slots
    IN  /\ Len(post) = Len(pre)
        /\ \A i \in 1..(Len(pre) - 1) : post[i] = pre[i + 1]
        /\ post[Len(post)] \in nextTag..(nextTag + T - 1)

\* layer l after the step: the addressed slots hold the call's tokens in order,
\* every other slot is as before
OnlyAddressedChanged(l, T, pos, max_seq_length) ==
    LET pre  == PreSlots(l, max_seq_length)
        post == kv_caches'[l].slots
    IN  /\ Len(post) = Len(pre)
        /\ \A i \in 1..Len(pre) :
              post[i] = IF i - 1 \in pos..(pos + T - 1)
                        THEN nextTag + (i - 1 - pos)
                        ELSE pre[i]

\* an incremental call that got as far as the cache write, on a cache whose
\* capacity is the call's max_seq_length
WriteStep(T, pos, msl_arg) ==
    /\ last'.op = "forward"
    /\ last'.wcap # 0
    /\ last'.wcap = MaxSeqLength(msl_arg)
    /\ nextTag' = nextTag + T
    /\ Forward(T, TRUE, pos, msl_arg)

ExpectedWindow(seq, cap) ==
    IF Len(seq) <= cap
    THEN seq \o Zeros(cap - Len(seq))
    ELSE SubSeq(seq, Len(seq) - cap + 1, Len(seq))

\* C2: after n single-token incremental writes at the consecutive positions
\* 0..n-1 into a cache of capacity C, the slots of every layer, in index order,
\* hold exactly the last min(n, C) written entries, oldest to newest (the tags
\* are distinct, so an evicted entry is in no slot).
C2_SlidingWindow ==
    (hist.ok /\ hist.seq # <<>>) =>
        /\ Len(kv_caches) = NLayer
        /\ \A l \in 1..NLayer :
              kv_caches[l].slots = ExpectedWindow(hist.seq, Len(kv_caches[l].slots))

\* more single-token writes than the cache has slots
C2_Witness ==
    /\ hist.ok
    /\ kv_caches # <<>>
    /\ Len(kv_caches[1].slots) >= 2
    /\ Len(hist.seq) > Len(kv_caches[1].slots)

(* ------------------------- the claims: C3 ----------------------------- *)

\* C3 as stated: for every max_seq_length <= block_size and every position
\* p >= max_seq_length, an incremental call of one token at p (on a cache of
\* that capacity) completes by applying the eviction shift.
C3_AsStated ==
    [][\A pos \in Positions, msl_arg \in MslArgs :
         ( /\ last'.op = "forward"
           /\ MaxSeqLength(msl_arg) <= BlockSize
           /\ pos >= MaxSeqLength(msl_arg)
           /\ kv_caches # <<>> => Len(kv_caches[1].slots) = MaxSeqLength(msl_arg)
           /\ Forward(1, TRUE, pos, msl_arg) )
         => (last'.res = "ok" /\ last'.shifted)]_vars

(* ------------------------- the claims: C4 ----------------------------- *)

\* the tokens of the batch in the flattened batch*sequence order
Tokens == 0..(Len(batch.lens) * batch.T - 1)

\* the example of token t and, within it, the fragment the token belongs to by
\* the example's own fragment lengths (0: past the last fragment)
DocOf(t) ==
    LET e == (t \div batch.T) + 1
        o == t % batch.T
        fr == batch.lens[e]
        inside == {f \in 1..Len(fr) : SumSeq(SubSeq(fr, 1, f - 1)) <= o
                                      /\ o < SumSeq(SubSeq(fr, 1, f))}
    IN  <<e, IF inside = {} THEN 0 ELSE CHOOSE f \in inside : TRUE>>

\* C4 as stated: for every batch whose examples hold fragments of at most the
\* block size in all, the document-segmented attention lets no query see a key
\* of another fragment or of another example.
C4_AsStated ==
    (attn.res = "ok" /\ attn.kind = "varlen") =>
        \A i \in Tokens, j \in Tokens : Attends(i, j) => DocOf(i) = DocOf(j)

\* C4 on full examples only: when the fragment lengths of every example add up
\* to exactly the sequence length T, the document-segmented attention lets no
\* query see a key of another fragment or of another example.
C4_SegmentsIsolated ==
    ( /\ attn.res = "ok" /\ attn.kind = "varlen"
      /\ \A e \in 1..Len(batch.lens) : SumSeq(batch.lens[e]) = batch.T ) =>
        \A i \in Tokens, j \in Tokens : Attends(i, j) => DocOf(i) = DocOf(j)

\* two full examples, one of them of two fragments, went through the
\* document-segmented kernel and a query saw an earlier key of its fragment
C4_Witness ==
    /\ attn.res = "ok" /\ attn.kind = "varlen"
    /\ Len(batch.lens) >= 2
    /\ \A e \in 1..Len(batch.lens) : SumSeq(batch.lens[e]) = batch.T
    /\ \E e \in 1..Len(batch.lens) : Len(batch.lens[e]) >= 2
    /\ \E i \in Tokens, j \in Tokens : i # j /\ Attends(i, j)

(* ------------------------- the claims: C5 ----------------------------- *)

\* C5 as stated: when document masking is requested, forward either fails or
\* keeps every query within its own segment of the boundaries; it never computes
\* plain causal attention over the whole example.
C5_AsStated ==
    attn.requested =>
        \/ attn.res # "ok"
        \/ \A i \in Tokens, j \in Tokens :
              Attends(i, j) => SegmentOf(attn.cu, i) = SegmentOf(attn.cu, j)

(* ------------------------- the claims: C6 ----------------------------- *)

\* C6: forward raises the capacity assertion, with the rotary table, the mask
\* and the key/value caches neither built nor changed, whenever
\* T > block_size, or max_seq_length > block_size, or (input_pos given)
\* max_seq_length < T; and never raises it when the three bounds hold.
C6_FailFast ==
    [][\A T \in Lengths, usekv \in BOOLEAN, pos \in Positions, msl_arg \in MslArgs :
         (last'.op = "forward" /\ last'.kv = usekv /\ Forward(T, usekv, pos, msl_arg)) =>
            IF \/ T > BlockSize
               \/ MaxSeqLength(msl_arg) > BlockSize
               \/ (usekv /\ MaxSeqLength(msl_arg) < T)
            THEN /\ last'.res = "AssertionError"
                 /\ UNCHANGED <<rope_cache, mask_cache, kv_caches>>
            ELSE last'.res # "AssertionError"]_vars

\* a call was rejected on a model whose caches are built and written
C6_Witness ==
    /\ last.op = "forward" /\ last.res = "AssertionError"
    /\ rope_cache.built /\ mask_cache.built
    /\ kv_caches # <<>>
    /\ \E i \in 1..Len(kv_caches[1].slots) : kv_caches[1].slots[i] # 0

(* ------------------------- the claims: C7 ----------------------------- *)

\* C7: reset_rope_cache(new_base) sets the rotary base to new_base, drops the
\* rotary table, and leaves the key/value caches and the mask as they are.
C7_ResetRopeFrame ==
    [][\A new_base \in RopeBases :
         (last'.op = "reset_rope_cache" /\ reset_rope_cache(new_base)) =>
            /\ rope_base' = new_base
            /\ rope_cache' = NoRope
            /\ UNCHANGED <<kv_caches, mask_cache>>]_vars

\* the base was changed on a model with a written key/value cache and a mask
C7_Witness ==
    /\ last.op = "reset_rope_cache"
    /\ rope_base \in RopeBases
    /\ ~rope_cache.built
    /\ mask_cache.built
    /\ kv_caches # <<>>
    /\ \E i \in 1..Len(kv_caches[1].slots) : kv_caches[1].slots[i] # 0

(* ------------------------- the claims: C8 ----------------------------- *)

\* C8: a cached rotary table was built from the current config.rope_base; a
\* forward that passes the capacity checks leaves a table cached, and a forward
\* that finds a table cached keeps that table.
C8_RopeTableCurrent ==
    /\ [](/\ rope_cache.built => rope_cache.base = rope_base
          /\ (last.op = "forward" /\ last.res # "AssertionError") => rope_cache.built)
    /\ [][(rope_cache.built /\ last'.op = "forward") => rope_cache' = rope_cache]_vars

\* a forward has rebuilt the table after the base was changed
C8_Witness ==
    /\ last.op = "forward"
    /\ rope_base \in RopeBases
    /\ rope_cache.built
    /\ rope_cache.base = rope_base

(* ------------------------- the claims: C9 ----------------------------- *)

\* C9 as stated: reset_cache empties the key/value cache, drops the rotary table
\* and the mask whenever they were built on XLA, and leaves them otherwise.
C9_AsStated ==
    [][last'.op = "reset_cache" =>
         /\ kv_caches' = <<>>
         /\ rope_cache' = IF rope_cache.built /\ rope_cache.device = "xla"
                          THEN NoRope ELSE rope_cache
         /\ mask_cache' = IF mask_cache.built /\ mask_cache.device = "xla"
                          THEN NoMask ELSE mask_cache]_vars

\* C9, amended: reset_cache empties the key/value cache; it drops the rotary
\* table and the mask exactly when a mask is built and lives on XLA (a table
\* built on XLA is kept while no mask is built), and leaves both otherwise.
C9_ResetCache ==
    [][last'.op = "reset_cache" =>
         /\ kv_caches' = <<>>
         /\ IF mask_cache.built /\ mask_cache.device = "xla"
            THEN rope_cache' = NoRope /\ mask_cache' = NoMask
            ELSE UNCHANGED <<rope_cache, mask_cache>>]_vars

\* reset_cache has dropped a table and a mask built on XLA
C9_Witness ==
    /\ last.op = "reset_cache" /\ last.cleared
    /\ device = "xla"
    /\ ~rope_cache.built /\ ~mask_cache.built
    /\ kv_caches = <<>>

(* ------------------------- the claims: C10 ---------------------------- *)

\* C10 as stated: the cache is allocated on the first incremental call with
\* n_layer entries of that call's max_seq_length, and at every later write its
\* capacity is the max_seq_length of the call that writes.
C10_AsStated ==
    [][\A T \in Lengths, pos \in Positions, msl_arg \in MslArgs :
         ( /\ last'.op = "forward" /\ last'.wcap # 0
           /\ nextTag' = nextTag + T
           /\ Forward(T, TRUE, pos, msl_arg) ) =>
            /\ Len(kv_caches') = NLayer
            /\ \A l \in 1..NLayer :
                  Len(kv_caches'[l].slots) = MaxSeqLength(msl_arg)]_vars

\* C10, amended: the cache is allocated by the first incremental call that
\* passes the capacity checks, as n_layer zeroed entries of that call's
\* max_seq_length; later calls keep the n_layer entries and the capacity it was
\* allocated with, whatever max_seq_length they pass; only reset_cache, which
\* always does, empties it.
C10_LazyAllocation ==
    [][/\ (kv_caches = <<>> /\ kv_caches' # <<>>) =>
            \E T \in Lengths, pos \in Positions, msl_arg \in MslArgs :
               /\ Forward(T, TRUE, pos, msl_arg)
               /\ Len(kv_caches') = NLayer
               /\ \A l \in 1..NLayer :
                    /\ Len(kv_caches'[l].slots) = MaxSeqLength(msl_arg)
                    /\ \A i \in 1..Len(kv_caches'[l].slots) :
                          kv_caches'[l].slots[i] \in {0} \cup nextTag..(nextTag + T - 1)
       /\ (kv_caches # <<>> /\ last'.op # "reset_cache") =>
               /\ Len(kv_caches') = NLayer /\ Len(kv_caches) = NLayer
               /\ \A l \in 1..NLayer :
                     Len(kv_caches'[l].slots) = Len(kv_caches[l].slots)
       /\ last'.op = "reset_cache" => kv_caches' = <<>>]_vars

\* a later call with another max_seq_length has met the cache at the capacity
\* it was allocated with
C10_Witness ==
    /\ last.op = "forward" /\ last.kv /\ last.res = "RuntimeError"
    /\ last.wcap # 0
    /\ Len(kv_caches) = NLayer
    /\ \A l \in 1..NLayer : Len(kv_caches[l].slots) = last.wcap

(* ------------------------- the claims: C11 ---------------------------- *)

\* C11: the causal mask has entry (i, j) true iff j <= i, and the mask an
\* incremental call hands to the blocks lets the query at absolute position p
\* see cache slot j iff j <= p, for every slot j < max_seq_length and every
\* supplied position p.
C11_CausalMask ==
    /\ mask_cache.built =>
          \A i \in 0..(mask_cache.size - 1), j \in 0..(mask_cache.size - 1) :
              Tril(mask_cache.size)[i + 1][j + 1] <=> (j <= i)
    /\ fwd_mask # <<>> =>
          /\ Len(fwd_mask.rows) = Len(fwd_mask.input_pos)
          /\ \A r \in 1..Len(fwd_mask.input_pos) :
                /\ Len(fwd_mask.rows[r]) = fwd_mask.max_seq_length
                /\ \A j \in 0..(fwd_mask.max_seq_length - 1) :
                      fwd_mask.rows[r][j + 1] <=> (j <= fwd_mask.input_pos[r])

\* an incremental call of two tokens has handed a mask whose first row hides a
\* slot the second row shows
C11_Witness ==
    /\ fwd_mask # <<>>
    /\ last.op = "forward" /\ last.res = "ok"
    /\ Len(fwd_mask.rows) >= 2
    /\ \E j \in 1..fwd_mask.max_seq_length :
          ~fwd_mask.rows[1][j] /\ fwd_mask.rows[2][j]

(* ------------------------- the claims: C12 ---------------------------- *)

\* the table was built by a re-rope variant
ReropeBuilt == rerope.res = "ok" /\ rerope.rerope_len # 0

\* C12 as stated: in the re-rope variant the table has a row for every position
\* i in [0, block_size), equal to row (i mod L) of the canonical table, for cos
\* and for sin.
C12_AsStated ==
    ReropeBuilt =>
        \A i \in 0..(block_size - 1) :
            /\ i + 1 <= Len(rerope.cos) /\ i + 1 <= Len(rerope.sin)
            /\ rerope.cos[i + 1] = RopeRows(rerope.rerope_len)[(i % rerope.rerope_len) + 1]
            /\ rerope.sin[i + 1] = RopeRows(rerope.rerope_len)[(i % rerope.rerope_len) + 1]

\* C12, amended: in the re-rope variant the table has L * (block_size div L)
\* rows, row i equal to row (i mod L) of the canonical table for cos and for
\* sin; it has a row for every position below block_size exactly when
\* block_size is a multiple of L.
C12_ReropeTiling ==
    ReropeBuilt =>
        LET L == rerope.rerope_len
            n == L * (block_size \div L)
        IN  /\ L = (IF intradoc_mask = "fix1rerope" THEN 1024 ELSE 2048)
            /\ Len(rerope.cos) = n /\ Len(rerope.sin) = n
            /\ \A i \in 0..(n - 1) :
                  /\ rerope.cos[i + 1] = RopeRows(L)[(i % L) + 1]
                  /\ rerope.sin[i + 1] = RopeRows(L)[(i % L) + 1]
            /\ (n = block_size) <=> (block_size % L = 0)

\* a table of more than one copy of the canonical rows
C12_Witness ==
    /\ ReropeBuilt
    /\ Len(rerope.cos) >= 2 * rerope.rerope_len
    /\ Len(rerope.cos) = block_size

(* ------------------------- the claims: C13 ---------------------------- *)

\* C13: a block of sequential residual topology with a shared attention norm
\* is rejected on every forward call (with NotImplementedError when its
\* attention runs), and it never reaches the feed-forward; a block of parallel
\* topology with a shared norm is accepted and feeds the output of norm_1 to
\* both attention and feed-forward.
C13_SharedNorm ==
    block_out.res # "none" =>
        /\ (~config.parallel_residual /\ config.shared_attention_norm) =>
              /\ block_out.res # "ok"
              /\ block_out.mlp_in = "none"
              /\ heads.res = "ok" => block_out.res = "NotImplementedError"
        /\ (config.parallel_residual /\ config.shared_attention_norm /\ heads.res = "ok") =>
              /\ block_out.res = "ok"
              /\ block_out.attn_in = <<"norm_1", "x">>
              /\ block_out.mlp_in = block_out.attn_in

\* a block of sequential topology with a shared norm, its attention run, has
\* been rejected
C13_Witness ==
    /\ block_out.res = "NotImplementedError"
    /\ ~config.parallel_residual /\ config.shared_attention_norm
    /\ heads.res = "ok"

(* ------------------------- the claims: C14 ---------------------------- *)

\* the window in effect for a call: the argument when given, else the
\* configured one, else none (0)
ChosenWindow(window_size) ==
    IF window_size # NoneArg THEN window_size
    ELSE IF window_cfg # NoWindow THEN window_cfg
    ELSE 0

\* C14: on the document-segmented and on the sliding-window path an explicit
\* window_size argument is the window used, the configured window is used only
\* when no argument is given, and the kernel gets (w - 1, 0): a query sees no
\* key more than w - 1 positions back.
C14_WindowPrecedence ==
    /\ []((attn.res = "ok" /\ attn.kind \in {"varlen", "flash"} /\ attn.w # 0) =>
             \A i \in Tokens, j \in Tokens :
                 Attends(i, j) => (j <= i /\ i - j <= attn.w - 1))
    /\ [][\A has_frags \in BOOLEAN, force_use_masking \in BOOLEAN,
             window_size \in {NoneArg, WindowArg} :
             ( /\ attn'.res = "ok"
               /\ attn'.kind \in {"varlen", "flash"}
               /\ ForwardBatch(has_frags, force_use_masking, window_size) )
             => attn'.w = ChosenWindow(window_size)]_vars

\* a model with a configured window was called with another window, on the
\* sliding-window path, and the argument's window was used
C14_Witness ==
    /\ attn.res = "ok" /\ attn.kind = "flash"
    /\ window_cfg # NoWindow
    /\ attn.w # 0 /\ attn.w # window_cfg

(* ------------------------- the claims: C15 ---------------------------- *)

\* C15 as stated: whenever a finite window is in effect and the
\* document-segmented path is not taken, a query sees only keys of its own
\* example that are not after it and at most window - 1 positions back,
\* whichever kernel is dispatched.
C15_AsStated ==
    [][\A has_frags \in BOOLEAN, force_use_masking \in BOOLEAN,
          window_size \in {NoneArg, WindowArg} :
          ( /\ attn'.res = "ok"
            /\ attn'.kind # "varlen"
            /\ ChosenWindow(window_size) # 0
            /\ ForwardBatch(has_frags, force_use_masking, window_size) )
          => \A i \in Tokens, j \in Tokens :
                Attends(i, j)' =>
                    /\ i \div batch.T = j \div batch.T
                    /\ j <= i
                    /\ i - j <= ChosenWindow(window_size) - 1]_vars

(* ------------------------- the claims: C16 ---------------------------- *)

\* the query group a chunk of the fused projection belongs to
GroupOfChunk(c) == ((c - 1) \div (QPerKv(config) + 2)) + 1

\* C16: in the reference attention path every key/value head is replicated
\* q_per_kv = n_head / n_query_groups times, so that query head h meets
\* key/value head floor(h / q_per_kv), the key/value head of the query group of
\* head h in the fused projection.
C16_GroupedQuery ==
    (heads.res = "ok" /\ heads.paired # <<>>) =>
        /\ Len(heads.q) = config.n_head
        /\ Len(heads.paired) = config.n_head
        /\ \A g \in 1..config.n_query_groups :
              Cardinality({h \in 1..config.n_head : heads.paired[h] = heads.k[g]})
                  = QPerKv(config)
        /\ \A h \in 0..(config.n_head - 1) :
              /\ heads.paired[h + 1] = heads.k[(h \div QPerKv(config)) + 1]
              /\ GroupOfChunk(heads.paired[h + 1]) = GroupOfChunk(heads.q[h + 1])

\* several groups of several query heads each went through the reference path
C16_Witness ==
    /\ heads.res = "ok" /\ heads.paired # <<>>
    /\ config.n_query_groups >= 2
    /\ QPerKv(config) >= 2
    /\ heads.paired[1] = heads.paired[2]
    /\ heads.paired[config.n_head] # heads.paired[1]

(* ------------------------- the claims: C18 ---------------------------- *)

\* C18: with n_head % n_query_groups != 0 the attention forward raises (the
\* projection of n_head + 2*n_query_groups heads cannot be viewed as
\* n_query_groups groups of n_head // n_query_groups + 2 heads); with
\* n_head % n_query_groups = 0 the split consumes the projection exactly: every
\* chunk is one query, key or value head.
C18_HeadRatio ==
    heads.res # "none" =>
        IF config.n_head % config.n_query_groups # 0
        THEN heads.res = "RuntimeError" /\ block_out.res = "RuntimeError"
        ELSE /\ heads.res = "ok"
             /\ config.n_query_groups * (QPerKv(config) + 2) = ProjChunks(config)
             /\ Len(heads.q) = config.n_head
             /\ Len(heads.k) = config.n_query_groups
             /\ LET qs == {heads.q[h] : h \in 1..Len(heads.q)}
                    ks == {heads.k[g] : g \in 1..Len(heads.k)}
                    vs == {heads.k[g] + 1 : g \in 1..Len(heads.k)}
                IN  /\ qs \cup ks \cup vs = 1..ProjChunks(config)
                    /\ Cardinality(qs) + Cardinality(ks) + Cardinality(vs)
                          = ProjChunks(config)

\* a config whose heads do not divide into its groups has been run and raised
C18_Witness ==
    /\ heads.res = "RuntimeError"
    /\ config.n_head > config.n_query_groups
    /\ config.n_head % config.n_query_groups # 0

(* ------------------------- the claims: C17 ---------------------------- *)

\* apply has visited every module
AllVisited == visit = Len(Modules(config)) /\ visit > 0

\* the output projections of the attention and feed-forward sublayers
OutputProjections ==
    {p \in WeightPaths(config) :
        p[Len(p)] \in {"proj", "w3"} /\ p[2] \in {"attn", "mlp"}}

\* C17 as stated: after apply has visited every module, the output-projection
\* weight of every attention sublayer and of every feed-forward sublayer, of
\* either feed-forward class, has the depth-scaled std, and every other linear
\* or embedding weight has std sqrt(2/(5*n_embd)).
C17_AsStated ==
    AllVisited =>
        \A p \in WeightPaths(config) :
            weights[p] = IF p \in OutputProjections THEN StdDepth ELSE StdBase

\* C17 on models of the SwiGLU feed-forward: the attention projection and w3
\* end with the depth-scaled std, every other linear or embedding weight with
\* std sqrt(2/(5*n_embd)).
C17_SwiGLUInit ==
    (AllVisited /\ config.mlp_class = "LLaMAMLP") =>
        \A p \in WeightPaths(config) :
            weights[p] = IF p \in OutputProjections THEN StdDepth ELSE StdBase

(* ------------------------- the claims: C19 ---------------------------- *)

\* C19: from a state with step_count * gradient_accumulation_steps = iter_num,
\* an optimizer step is taken in exactly the iterations with
\* (iter_num + 1) % gradient_accumulation_steps = 0, and at the top of every
\* loop iteration step_count = floor(iter_num / gradient_accumulation_steps).
C19_Accumulation ==
    /\ [](pc = "loop" =>
             state.step_count = state.iter_num \div gradient_accumulation_steps)
    /\ [][(pc = "backward" /\ pc' = "loop") =>
             /\ state'.iter_num = state.iter_num + 1
             /\ state'.step_count \in {state.step_count, state.step_count + 1}
             /\ (state'.step_count = state.step_count + 1)
                   <=> ((state.iter_num + 1) % gradient_accumulation_steps = 0)]_vars

\* a run that accumulates over several iterations stands in the middle of an
\* accumulation after several optimizer steps
C19_Witness ==
    /\ pc = "loop"
    /\ gradient_accumulation_steps >= 2
    /\ state.step_count >= 2
    /\ state.iter_num % gradient_accumulation_steps # 0

(* ------------------------- the claims: C20 ---------------------------- *)

\* rope_update_steps[k] for the largest key k <= step_count
ScheduleBase(step_count) ==
    LET keys == {k \in DOMAIN rope_update_steps : k <= step_count}
    IN  rope_update_steps[CHOOSE k \in keys : \A k2 \in keys : k2 <= k]

\* C20 as stated: with RESET_ROPE on, at every training forward call the rotary
\* base (and the base of the table the call uses) is rope_update_steps[k] for
\* the largest key k <= step_count, in a fresh run and in a resumed one.
C20_AsStated ==
    [][(pc = "loop" /\ pc' = "backward") =>
          /\ rope_base = ScheduleBase(state.step_count)
          /\ rope_cache'.base = ScheduleBase(state.step_count)]_vars

\* C20 on runs that start from the fresh state: the same.
C20_FreshRun ==
    [][(pc = "loop" /\ pc' = "backward" /\ initial_iter = 0) =>
          /\ rope_base = ScheduleBase(state.step_count)
          /\ rope_cache'.base = ScheduleBase(state.step_count)]_vars

(* ------------------------- the claims: C21 ---------------------------- *)

\* a run resumed from a checkpoint with the replay of the dataloader on:
\* main() hands train() a set resume exactly with a loaded checkpoint, whose
\* iter_num is positive
Replayed == go_through_dataloader /\ initial_iter > 0

\* C21: in a resumed run with the replay on, a batch is passed over only while
\* fewer than initial_iter batches have been drawn, with no forward call, no
\* learning rate, no change of iter_num or step_count and no checkpoint; the
\* batch trained on in the iteration iter_num is the batch iter_num + 1 of
\* the dataloader, so the first one trained on is the batch initial_iter + 1
\* and none is passed over after it.
C21_FastForward ==
    /\ [](resume /\ pc \in {"loop", "backward"} => initial_iter > 0)
    /\ [][(pc = "loop" /\ pc' = "loop" /\ consumed' = consumed + 1) =>
             /\ Replayed
             /\ consumed < initial_iter
             /\ state' = state /\ state.iter_num = initial_iter
             /\ UNCHANGED <<model_vars, lr, saved>>]_vars
    /\ [][(Replayed /\ pc = "loop" /\ pc' = "backward") =>
             /\ consumed >= initial_iter
             /\ consumed' = state.iter_num + 1]_vars

\* the first forward/backward pass of a resumed run is on the batch that
\* follows the initial_iter batches it has passed over
C21_Witness ==
    /\ pc = "backward"
    /\ Replayed
    /\ state.iter_num = initial_iter
    /\ consumed = initial_iter + 1
    /\ curr_iter = -1 /\ ~resume

(* ------------------------- the claims: C22 ---------------------------- *)

\* C22 as stated: with eval_only set, train() takes no optimizer step, changes
\* neither iter_num nor step_count and saves no checkpoint, with a validation
\* dataloader and with val_dataloader = None.
C22_AsStated ==
    [][eval_only => state' = state /\ saved' = saved]_vars

\* C22 with a validation dataloader: the same, and train() returns after the
\* sanity validation.
C22_WithValidation ==
    /\ [][(eval_only /\ val_dataloader) => state' = state /\ saved' = saved]_vars
    /\ [](eval_only /\ val_dataloader => pc \in {"start", "done"})

\* with eval_only set and val_dataloader = None the first iteration has taken
\* an optimizer step before the assertion on val_dataloader ends the run
C22_TrainsWithoutValidation ==
    /\ eval_only /\ ~val_dataloader
    /\ pc = "AssertionError"
    /\ state.iter_num = initial_iter + 1
    /\ state.step_count = 1

(* ------------------------- the claims: C23 ---------------------------- *)

\* C23: every get_lr call of the training loop is on an iteration
\* 0 <= it < max_iters and ends without a division by zero and without a
\* failed assertion, whether max_iters is below, at or above warmup_iters; it
\* takes the linear warmup branch iff it < warmup_iters and the cosine branch
\* otherwise, there with a positive denominator and 0 <= decay_ratio <= 1.
C23_LrSchedule ==
    lr.res # "none" =>
       /\ lr.res = "ok"
       /\ 0 <= lr.it /\ lr.it < max_iters
       /\ lr.branch = IF lr.it < warmup_iters THEN "warmup" ELSE "cosine"
       /\ lr.branch = "warmup" => lr.den = warmup_iters /\ lr.den > 0 /\ lr.num = lr.it
       /\ lr.branch = "cosine" =>
             /\ lr.den = max_iters - warmup_iters /\ lr.den > 0
             /\ lr.num = lr.it - warmup_iters
             /\ 0 <= lr.num /\ lr.num <= lr.den

\* the last iteration of a run with max_iters = warmup_iters, where
\* lr_decay_iters - warmup_iters = 0, has got its learning rate from the
\* warmup branch
C23_Witness ==
    /\ pc = "backward"
    /\ max_iters = warmup_iters
    /\ lr.it = max_iters - 1
    /\ lr.res = "ok" /\ lr.branch = "warmup"

\* the last iteration of a run with max_iters > warmup_iters has got its
\* learning rate from the cosine branch
C23_CosineReached ==
    /\ pc = "backward"
    /\ max_iters > warmup_iters
    /\ lr.it = max_iters - 1
    /\ lr.res = "ok" /\ lr.branch = "cosine" /\ lr.num > 0

(* ------------------------- the claims: C24 ---------------------------- *)

\* train() has left its loop: by the break, the end of the dataloader or the
\* eval_only return, or by an exception
Exited == pc \in {"done", "AssertionError", "ZeroDivisionError"}

\* C24: a forward/backward pass is run only in an iteration that starts with
\* iter_num < max_iters, iter_num never exceeds max_iters, and train()
\* eventually leaves its loop, on a dataloader that keeps yielding batches and
\* on one that runs out.
C24_Termination ==
    /\ [][pc' = "backward" => state.iter_num < max_iters]_vars
    /\ [](state.iter_num <= max_iters)
    /\ <>Exited

\* a run on a dataloader that keeps yielding batches has trained up to
\* max_iters and left the loop by the break
C24_Witness ==
    /\ pc = "done"
    /\ data_len = Endless
    /\ state.iter_num = max_iters
    /\ state.iter_num > initial_iter
    /\ consumed > max_iters - initial_iter

====
